---- MODULE Spec2Model ----
(***************************************************************************)
(* casync-updater client: periodic synchronisation of a destination        *)
(* directory with a remote casync source, with an optional local backup    *)
(* archive, path triggers and startup commands.                            *)
(*                                                                         *)
(* Two programs of the repository are modelled:                            *)
(*   Spec    src/config/client.js  (cached destination checksum, process   *)
(*           with one scheduling task per configuration entry)             *)
(*   SpecTs  src/unnamed/part_000  lines 185-258 (runCycle deciding on     *)
(*           {checksum, timestamp} records)                                *)
(* SpecLive is Spec under the event loop's fairness; SpecSeq and SpecPair  *)
(* are client.js with an interval longer than a cycle and a history of     *)
(* the cycles, with one and with two configuration entries; SpecBlock is   *)
(* SpecPair with a trigger command that may never return; SpecCfg is       *)
(* SpecPair with configuration entries that lack fields. SpecCas calls     *)
(* the methods of src/config/casync.js (lines 528-827) one at a time.      *)
(***************************************************************************)
EXTENDS Integers, Sequences, FiniteSets, Bags, TLC

----------------------------------------------------------------------------
(* Bounds of the model *)

\* runCycle invocations of one entry that are in progress at a time
MaxRunning == 2

\* external changes of a source index over a run
MaxSrcChanges == 1

\* largest timestamp of a checksum record (SpecTs)
MaxTs == 2

\* runCycle invocations of one entry over a run (SpecSeq, SpecPair)
MaxCycles == 2

----------------------------------------------------------------------------
(* Values *)

\* a JavaScript variable that was never assigned, or a deleted property
Undefined == "undefined"

\* a destination path that is not a directory
NoDir == "nodir"

\* checksum of an empty directory
Empty == "k0"

\* content checksums (a replica's content is identified by its checksum)
Cks == {"k0", "k1", "k2"}

\* relative paths of the content trees
Paths == <<"p1", "p2">>

\* The tree listing (casync mtree) of a content: path -> version, 0 = absent
Tree(c) ==
    CASE c = "k1" -> [p1 |-> 1, p2 |-> 0]
      [] c = "k2" -> [p1 |-> 2, p2 |-> 1]
      [] OTHER    -> [p1 |-> 0, p2 |-> 0]

----------------------------------------------------------------------------
(* Configuration (README.md, client configuration) *)

Entries == {1, 2}

\* c.backupIndex is set
backupIndex(e) == e = 1

\* c.triggers
triggers(e) ==
    IF e = 1
    THEN << [paths |-> <<"p1">>, actions |-> <<"c1">>],
            [paths |-> <<"p2">>, actions |-> <<"c2", "c3">>],
            [paths |-> <<>>,     actions |-> <<"c4">>] >>
    ELSE << [paths |-> <<"p2", "p1">>, actions |-> <<"c3">>] >>

\* c.startup
startup(e) ==
    IF e = 1 THEN <<"c1", "c4">> ELSE <<"c3", "c2">>

\* the entries of the configuration file the process was started with
Loaded == {1}

\* an entry of the configuration list: which of the four fields tested at
\* line 64 it has (with a truthy value); listed is FALSE for an entry that is
\* not in the list
Listed ==
    [listed : {TRUE}, interval : BOOLEAN, srcIndex : BOOLEAN, srcStore : BOOLEAN,
     dstPath : BOOLEAN]

\* no entry
NoEntry ==
    [listed |-> FALSE, interval |-> FALSE, srcIndex |-> FALSE, srcStore |-> FALSE,
     dstPath |-> FALSE]

\* an entry with every field
FullEntry ==
    [listed |-> TRUE, interval |-> TRUE, srcIndex |-> TRUE, srcStore |-> TRUE,
     dstPath |-> TRUE]

\* line 64: `c.interval && c.srcIndex && c.srcStore && c.dstPath`
validEntry(c) == c.interval /\ c.srcIndex /\ c.srcStore /\ c.dstPath

\* lines 62-100: where the forEach callback of an entry is once forEach has
\* returned: at its first await (line 80), or ended by the throw of line 99
\* with its promise rejected
parsed(c) ==
    IF ~c.listed THEN "off"
    ELSE IF validEntry(c) THEN "digestDst" ELSE "rejected"

----------------------------------------------------------------------------
VARIABLES
    \* environment of client.js
    src,            \* src[e]: checksum of the source index, Undefined = unreachable
    dstDir,         \* dstDir[e]: content of the destination directory, or NoDir
    backup,         \* backup[e]: content of the backup archive, Undefined = none
    \* client.js
    checksum,       \* checksum[e]: the checksum cache, keyed by dstPath
    srcChanges,     \* external source changes so far
    tActions,       \* trigger actions cache (set of commands marked true)
    task,           \* task[e]: position of the parseConfig callback of entry e
    cyc,            \* cyc[e]: the bag of runCycle invocations of entry e
    startupRan,     \* startupRan[e]: commands executed by execStartup
    failing,        \* the commands whose execSync throws
    hanging,        \* the commands whose execSync never returns
    config,         \* config[e]: the fields entry e of the configuration list has
    hist,           \* hist[e]: history of the cycles of entry e, kept when hist[e].on
    \* part_000 runCycle
    srcChecksum, dstChecksum, backupChecksum, tsBackupIndex, tsPc, tsDid,
    \* casync.js
    cas             \* the call of a casync method: its inputs, then its outcome

vars == << src, dstDir, backup, srcChanges, checksum, tActions, task, cyc, startupRan,
           failing, hanging, config, hist, srcChecksum, dstChecksum, backupChecksum, tsBackupIndex, tsPc, tsDid,
           cas >>

envVars == << src, dstDir, backup, srcChanges, failing, hanging, config >>
\* the variables of part_000 and of client.js alone
tsOnly  == << srcChecksum, dstChecksum, backupChecksum, tsBackupIndex, tsPc, tsDid >>
cliOnly == << src, dstDir, backup, srcChanges, checksum, tActions, task, cyc, startupRan,
              failing, hanging, config, hist >>
\* the variables the client.js process, and the part_000 runCycle, leave alone
tsVars  == << tsOnly, cas >>
cliVars == << cliOnly, cas >>

----------------------------------------------------------------------------
(* casync.js, as client.js uses it *)

\* casync.digest(target, options): the checksum of the target's content;
\* rejected (Undefined here) when the target cannot be read
digest(content) ==
    IF content \in Cks THEN content ELSE Undefined

\* a diff that was never assigned (casync.diff rejected)
NoDiff == [defined |-> FALSE, list |-> <<>>]

\* casync.diff(source1, options1, source2, options2): the paths of the lines
\* of source2's tree listing that do not match a line of source1's ('>' lines)
casyncDiff(s1, s2) ==
    [defined |-> TRUE,
     list |-> SelectSeq(Paths, LAMBDA p : Tree(s2)[p] # 0 /\ Tree(s2)[p] # Tree(s1)[p])]

----------------------------------------------------------------------------
(* casync.js, lines 528-827: the methods of the wrapper *)

\* a file that is not there, or that cannot be read or downloaded
Absent == "absent"

\* what a checksum sidecar (<target>.cks) holds
Sidecars == {Absent, "", "k1"}

\* what the subprocess of a casync command hands back: error (exec failed or
\* the exit code is not 0), stderr is not empty, and its stdout
Outcomes == [error : BOOLEAN, stderr : BOOLEAN, stdout : {"", "k0\n", "k1\n", "k2\n"}]

NoOutcome == [error |-> FALSE, stderr |-> FALSE, stdout |-> ""]

\* the line casync prints for content c: its checksum, or its listing
line(c) == IF c = "k0" THEN "k0\n" ELSE IF c = "k1" THEN "k1\n" ELSE "k2\n"

\* String.prototype.trim on the values of the model
trim(s) ==
    IF s = "k0\n" THEN "k0" ELSE IF s = "k1\n" THEN "k1" ELSE IF s = "k2\n" THEN "k2" ELSE s

\* the outcomes of a casync command that reads content c: it fails when there
\* is nothing to read, and prints the line of c when it exits with code 0
Ran(c) ==
    {o \in Outcomes : IF o.error \/ c \notin Cks THEN o.error /\ o.stdout = ""
                                                 ELSE o.stdout = line(c)}

\* `if (data)` on a string or undefined
truthy(data) == data \notin {Undefined, ""}

\* wget(url), lines 785-815: rejected on an error of the download, resolved
\* with the text, or with undefined when stdout is empty
wget(file) ==
    IF file = Absent THEN [rejected |-> TRUE, data |-> Undefined]
    ELSE IF file = "" THEN [rejected |-> FALSE, data |-> Undefined]
    ELSE [rejected |-> FALSE, data |-> file]

\* readFile(path), lines 757-778: a remote path is downloaded; a local file
\* that cannot be read resolves undefined
readFile(remote, file) ==
    IF remote THEN wget(file)
    ELSE IF file = Absent THEN [rejected |-> FALSE, data |-> Undefined]
    ELSE [rejected |-> FALSE, data |-> file]

\* how a method settles: state "resolved" or "rejected", the value it
\* resolves, the casync commands it ran and the sidecars it wrote
Result(state, value, ran, wrote) ==
    [state |-> state, value |-> value, ran |-> ran, wrote |-> wrote]

\* digest(target, options), lines 609-628
digestCks(remote, sidecar, out) ==
    LET f == readFile(remote, sidecar)
    IN IF f.rejected THEN Result("rejected", Undefined, {}, {})
       ELSE IF truthy(f.data) THEN Result("resolved", f.data, {}, {})
       ELSE IF out.error THEN Result("rejected", Undefined, {"digest"}, {})
       ELSE Result("resolved", trim(out.stdout), {"digest"}, {})

\* mtree(target, options), lines 651-668
mtree(out) ==
    IF out.error \/ out.stderr THEN Result("rejected", Undefined, {"mtree"}, {})
    ELSE IF truthy(out.stdout) THEN Result("resolved", out.stdout, {"mtree"}, {})
    ELSE Result("resolved", Undefined, {"mtree"}, {})

\* extract(index, destination, options), lines 585-601
extract(out) ==
    IF out.error \/ out.stderr THEN Result("rejected", Undefined, {"extract"}, {})
    ELSE IF truthy(out.stdout) THEN Result("resolved", out.stdout, {"extract"}, {})
    ELSE Result("resolved", Undefined, {"extract"}, {})

\* make(index, source, options), lines 549-576: out is the outcome of casync
\* make, out2 that of the casync mtree that follows
make(out, out2) ==
    IF out.error \/ out.stderr THEN Result("rejected", Undefined, {"make"}, {})
    ELSE LET t == mtree(out2)
         IN IF t.state = "rejected"
            THEN Result("rejected", Undefined, {"make", "mtree"}, {".cks"})
            ELSE Result("resolved", trim(out.stdout), {"make", "mtree"},
                        {".cks"} \cup (IF truthy(t.value) THEN {".mtree"} ELSE {}))

\* the tree listing of content c (the output of casync mtree, or the .mtree
\* sidecar): a line <<path, attributes>> for the root and per entry, in
\* path order
listing(c) ==
    LET present == SelectSeq(Paths, LAMBDA p : Tree(c)[p] # 0)
    IN << <<".", 0>> >> \o [j \in 1..Len(present) |-> <<present[j], Tree(c)[present[j]]>>]

\* the place of path p in the order of the listings
rank(p) == CHOOSE n \in 1..Len(Paths) : Paths[n] = p

RECURSIVE textDiff(_, _)
\* line 717, `diff mtree1 mtree2`: the output of the text diff of listings a
\* and b, every line split at its spaces: a hunk header, then '<' lines for
\* the lines of a and '>' lines for the lines of b
textDiff(a, b) ==
    IF a = <<>> /\ b = <<>> THEN <<>>
    ELSE IF a = <<>>
         THEN << <<"a">>, <<">", Head(b)[1], Head(b)[2]>> >> \o textDiff(a, Tail(b))
    ELSE IF b = <<>>
         THEN << <<"d">>, <<"<", Head(a)[1], Head(a)[2]>> >> \o textDiff(Tail(a), b)
    ELSE IF Head(a) = Head(b) THEN textDiff(Tail(a), Tail(b))
    ELSE IF Head(a)[1] = Head(b)[1]
         THEN << <<"c">>, <<"<", Head(a)[1], Head(a)[2]>>, <<"---">>,
                 <<">", Head(b)[1], Head(b)[2]>> >> \o textDiff(Tail(a), Tail(b))
    ELSE IF rank(Head(a)[1]) < rank(Head(b)[1])
         THEN << <<"d">>, <<"<", Head(a)[1], Head(a)[2]>> >> \o textDiff(Tail(a), b)
    ELSE << <<"a">>, <<">", Head(b)[1], Head(b)[2]>> >> \o textDiff(a, Tail(b))

\* a parse that keeps the '<' lines
parseDiffFirst(lines) ==
    LET kept == SelectSeq(lines, LAMBDA l : l[1] = "<")
    IN [j \in 1..Len(kept) |-> kept[j][2]]

\* lines 734-744: arr[1] of every line that starts with '>', in output order
parseDiff(lines) ==
    LET kept == SelectSeq(lines, LAMBDA l : l[1] = ">")
    IN [j \in 1..Len(kept) |-> kept[j][2]]

\* the steps of diff after which an exception leaves the try block
FailAts == {"none", "mount", "write", "read", "cleanup"}

\* how diff settles, with the scratch directory it leaves behind
DiffResult(state, list, mounted, exists) ==
    [state |-> state, list |-> list, mounted |-> mounted, exists |-> exists]

\* diff(source1, options1, source2, options2), lines 678-750: s1 and s2 are
\* the contents whose listings lines 682-693 obtained (Undefined when the
\* sidecar and casync mtree both gave none); failAt is the step that throws
casDiff(s1, s2, failAt) ==
    IF s1 = Undefined \/ s2 = Undefined
    THEN \* line 696: mtree1.length on undefined
         DiffResult("rejected", <<>>, FALSE, FALSE)
    ELSE IF failAt = "mount"
    THEN \* lines 699-705: mkdir done, mount failed
         DiffResult("rejected", <<>>, FALSE, TRUE)
    ELSE IF failAt \in {"write", "read", "cleanup"}
    THEN \* lines 708-709, 723, 726-729: the catch of line 746 rejects
         DiffResult("rejected", <<>>, TRUE, TRUE)
    ELSE DiffResult("resolved", parseDiff(textDiff(listing(s1), listing(s2))), FALSE, FALSE)

\* the files the methods work on: the content of a directory dir, the
\* archive index made from it with its sidecars index.cks (cks) and
\* index.mtree (mt, named by the content it lists), and the content of a
\* directory tmp to extract into. prevCks and prevMt are the sidecars as the
\* last make found them; trip tells whether the archive was made
\* successfully ("made") and then extracted successfully ("extracted")
FsStart ==
    [dir |-> "k1", index |-> Undefined, cks |-> Absent, mt |-> Absent, tmp |-> Empty,
     prevCks |-> Absent, prevMt |-> Absent, trip |-> "none"]

\* line 551, `casync make index source`, then lines 556-567: the files after
\* make ran on a directory holding source and settled as r
made(fs, source, out, out2, r) ==
    [fs EXCEPT !.dir = source,
               !.index = IF out.error THEN @ ELSE source,
               !.cks = IF ".cks" \in r.wrote THEN trim(out.stdout) ELSE @,
               !.mt = IF ".mtree" \in r.wrote THEN trim(out2.stdout) ELSE @,
               !.prevCks = fs.cks,
               !.prevMt = fs.mt,
               !.trip = IF r.state = "resolved" THEN "made" ELSE "none"]

\* an extraction that leaves the destination as it was
untouchedTmp(tmp, index, out) == tmp

\* line 587, `casync extract index destination`: the destination afterwards
extractedTmp(tmp, index, out) ==
    IF out.error \/ index \notin Cks THEN tmp ELSE index

\* the files after extract ran on the archive and settled as r
extracted(fs, out, r) ==
    [fs EXCEPT !.tmp = extractedTmp(fs.tmp, fs.index, out),
               !.trip = IF r.state = "resolved" /\ fs.trip # "none"
                        THEN "extracted" ELSE "none"]

\* what digest is called on: a remote index, or one of the local files
Targets == {"remote", "index", "dir", "tmp"}

\* the content of a local target
holds(fs, target) ==
    IF target = "index" THEN fs.index ELSE IF target = "dir" THEN fs.dir ELSE fs.tmp

\* no call of a casync method is modelled
CasOff ==
    [pc |-> "off", op |-> "none", remote |-> FALSE, sidecar |-> Absent,
     out |-> NoOutcome, out2 |-> NoOutcome, s1 |-> Undefined, s2 |-> Undefined,
     failAt |-> "none", state |-> "none", value |-> Undefined, list |-> <<>>,
     ran |-> {}, wrote |-> {}, mounted |-> FALSE, exists |-> FALSE,
     target |-> "none", fs |-> FsStart]

\* no call of a casync method is in progress
CasReady == [CasOff EXCEPT !.pc = "ready"]

\* the call c has settled as r
settled(c, r) ==
    [c EXCEPT !.pc = "returned", !.state = r.state, !.value = r.value,
              !.ran = r.ran, !.wrote = r.wrote]

----------------------------------------------------------------------------
(* client.js: execTriggers, execStartup *)

\* diff.includes(path)
includes(list, p) == \E i \in 1..Len(list) : list[i] = p

\* line 320: the trigger has a non-empty paths array and a non-empty actions array
validTrigger(t) == Len(t.paths) > 0 /\ Len(t.actions) > 0

\* lines 322-341: the actions of a valid trigger are executed. The loop of
\* lines 324-327 assigns the result of diff.includes to `found`, `match`
\* stays false, and the forEach of line 330 is not guarded by either.
runsActions(t, list) == validTrigger(t)

RECURSIVE triggerActionsLastFirst(_, _, _)
\* a forEach that visits the triggers from the last declared to the first
triggerActionsLastFirst(list, trigs, i) ==
    IF i > Len(trigs) THEN <<>>
    ELSE triggerActionsLastFirst(list, trigs, i + 1) \o
         (IF runsActions(trigs[i], list)
          THEN [j \in 1..Len(trigs[i].actions) |-> <<i, trigs[i].actions[j]>>]
          ELSE <<>>)

RECURSIVE triggerActions(_, _, _)
\* the <<trigger index, action>> pairs executed for triggers i..Len(trigs)
triggerActions(list, trigs, i) ==
    IF i > Len(trigs) THEN <<>>
    ELSE (IF runsActions(trigs[i], list)
          THEN [j \in 1..Len(trigs[i].actions) |-> <<i, trigs[i].actions[j]>>]
          ELSE <<>>) \o triggerActions(list, trigs, i + 1)

\* an execTriggers that does not test its diff argument
execTriggersAnyDiff(diff, trigs) == triggerActions(diff.list, trigs, 1)

\* execTriggers(diff, triggers): the executions it performs, in order
execTriggers(diff, trigs) ==
    IF diff.defined THEN triggerActions(diff.list, trigs, 1) ELSE <<>>

\* a cache that records a command once its execSync has returned
markedDone(fired) == {fired[i][2] : i \in 1..Len(fired)} \ failing

\* the commands execTriggers records in tActions (line 333)
marked(fired) == {fired[i][2] : i \in 1..Len(fired)}

\* the commands of the executions execTriggers performs
commands(fired) == [j \in 1..Len(fired) |-> fired[j][2]]

RECURSIVE executedUntilThrow(_, _)
\* a forEach that an exception of execSync leaves
executedUntilThrow(cmds, bad) ==
    IF cmds = <<>> THEN 0
    ELSE IF Head(cmds) \in bad THEN 1
    ELSE 1 + executedUntilThrow(Tail(cmds), bad)

RECURSIVE executed(_, _)
\* lines 330-341 and 355-364: how many of the commands the forEach executes
\* when those of `bad` throw; the try/catch is inside the iteration, the
\* error is logged and the next iteration runs
executed(cmds, bad) ==
    IF cmds = <<>> THEN 0
    ELSE IF Head(cmds) \in bad THEN 1 + executed(Tail(cmds), bad)
    ELSE 1 + executed(Tail(cmds), bad)

RECURSIVE started(_, _)
\* lines 335 and 358: how many of the commands are started when execSync
\* never returns for those of `stuck`; execSync is synchronous and is given
\* no timeout, so nothing follows a command that does not end
started(cmds, stuck) ==
    IF cmds = <<>> THEN 0
    ELSE IF Head(cmds) \in stuck THEN 1
    ELSE 1 + started(Tail(cmds), stuck)

\* the last command started never returns
stuckIn(cmds, stuck) == cmds # <<>> /\ cmds[Len(cmds)] \in stuck

\* a startup run that does not consult the trigger actions cache
execStartupAll(list, cache) == list

\* execStartup(startup): the commands it executes, in order (line 355)
execStartup(list, cache) ==
    SelectSeq(list, LAMBDA a : a \notin cache)

----------------------------------------------------------------------------
(* client.js: runCycle decisions *)

\* a save of the backup whenever the destination checksum is cached
saveBackupAlways(e, bc, cached) == backupIndex(e) /\ cached # Undefined

\* line 184: the backup archive is saved
saveBackup(e, bc, cached) ==
    backupIndex(e) /\ cached # Undefined /\ bc # cached

\* an extraction of the source whenever it is available
fromSourceAlways(sc, cached) == sc # Undefined

\* an extraction of the source only against a cached destination checksum
fromSourceCached(sc, cached) == sc # Undefined /\ cached # Undefined /\ sc # cached

\* line 140: the source is extracted
fromSource(sc, cached) ==
    sc # Undefined /\ sc # cached

\* an extraction of the backup whenever the source is unavailable
fromBackupAlways(sc, bc, cached) == sc = Undefined /\ bc # Undefined /\ cached # Undefined

\* lines 167-168: the backup is extracted
fromBackup(sc, bc, cached) ==
    sc = Undefined /\ bc # Undefined /\ cached # Undefined /\ cached # bc

\* a runCycle that saves the backup before anything else
afterDigestsSaveFirst(e, sc, bc, cached) ==
    IF saveBackup(e, bc, cached) THEN "make"
    ELSE IF fromSource(sc, cached) THEN "diff"
    ELSE IF fromBackup(sc, bc, cached) THEN "extractBackup"
    ELSE "done"

\* a runCycle that diffs, extracts and runs the triggers whatever it digested
afterDigestsDiffAlways(e, sc, bc, cached) == "diff"

\* where runCycle continues once both digests are in (lines 140, 167, 184)
afterDigests(e, sc, bc, cached) ==
    IF fromSource(sc, cached) THEN "diff"
    ELSE IF fromBackup(sc, bc, cached) THEN "extractBackup"
    ELSE IF saveBackup(e, bc, cached) THEN "make"
    ELSE "done"

\* a runCycle whose backup branch is an `if` of its own after the source branch
afterExtractThenBackup(e, bc, cached) ==
    IF bc # Undefined /\ cached # bc THEN "extractBackup"
    ELSE IF saveBackup(e, bc, cached) THEN "make" ELSE "done"

\* where runCycle continues after an extraction (line 184)
afterExtract(e, bc, cached) ==
    IF saveBackup(e, bc, cached) THEN "make" ELSE "done"

\* an extraction into whatever the destination path is
anyDestination(dir) == TRUE

\* extract, line 236 (and extractBackup, line 297): dirExists(dstPath)
validDestination(dir) == dir # NoDir

\* a save of whatever the destination path is
anyBackup(dir, dstExist) == TRUE

\* makeBackup, lines 262-269: srcExist && !srcEmpty && dstExist, for the
\* directory to save and the directory of the backup index
validBackup(dir, dstExist) == dir # NoDir /\ dir # Empty /\ dstExist

\* the steps of runCycle an invocation has done: "extract", "extractBackup"
\* and "make" for the awaited calls of lines 150, 169 and 186 once settled,
\* "casync.extract" and "casync.make" for the calls of lines 237 and 270
called(valid, name) == IF valid THEN {name} ELSE {}

IdleCycle ==
    [pc |-> "idle", sourceChecksum |-> Undefined, backupChecksum |-> Undefined,
     diff |-> NoDiff, seen |-> FALSE, dstSeen |-> Undefined, did |-> {},
     fired |-> <<>>, extracted |-> Undefined, first |-> FALSE]

\* runCycle is called: it runs up to its first await (line 121)
NewCycle(isFirst) == [IdleCycle EXCEPT !.pc = "digestSrc", !.first = isFirst]

\* runCycle has returned (line 192) and nothing awaits it: an interval tick's
\* invocation (the first run's is awaited by parseConfig, line 88)
dropped(c) == c.pc = "done" /\ ~c.first

\* runCycle goes on past the step its decision led to: sourceChecksum and the
\* cache value the decision read are not read again. The first run's
\* invocation keeps them as a record of the decision.
past(c) ==
    IF c.first THEN c
    ELSE [c EXCEPT !.sourceChecksum = Undefined, !.dstSeen = Undefined, !.seen = FALSE]

\* runCycle goes on past execTriggers (line 164): diff is not read again
pastTriggers(c) ==
    IF c.first THEN c
    ELSE [c EXCEPT !.diff = NoDiff, !.fired = <<>>, !.extracted = Undefined]

----------------------------------------------------------------------------
(* Spec: the client.js process *)

\* values the part_000 variables keep under Spec
TsIdle ==
    /\ srcChecksum = Undefined /\ dstChecksum = Undefined
    /\ backupChecksum = Undefined /\ tsBackupIndex = FALSE
    /\ tsPc = "off" /\ tsDid = {}

\* no history is kept for the entry. A history holds: cycles, the number of
\* runCycle invocations so far; upset, whether an operation of the current
\* cycle failed or the source changed during it; prevOk, whether the last
\* cycle returned without upset and the source did not change since; fires,
\* the number of cycles that executed the actions of the first trigger; base,
\* the content of the destination at process start
NoHist ==
    [on |-> FALSE, cycles |-> 0, upset |-> FALSE, prevOk |-> FALSE, fires |-> 0,
     base |-> NoDir]

\* the history of an entry at process start, its destination holding content
NewHist(content) == [NoHist EXCEPT !.on = TRUE, !.base = content]

\* the state at process start: the entries of `loaded` are in the
\* configuration, the commands of one set of `bad` throw, and a history is
\* kept when `on`; the commands of one set of `stuck` never return
InitOf(lists, bad, stuck, on) ==
    /\ config \in lists
    /\ src \in [Entries -> {Undefined, "k1", "k2"}]
    /\ dstDir \in [Entries -> {NoDir, "k0", "k1"}]
    /\ backup \in [Entries -> {Undefined, "k1", "k2"}]
    /\ \A e \in Entries : ~backupIndex(e) => backup[e] = Undefined
    /\ \A e \in Entries : ~config[e].listed => src[e] = Undefined /\ dstDir[e] = NoDir
    /\ srcChanges = 0
    /\ failing \in bad
    /\ hanging \in stuck
    /\ checksum = [e \in Entries |-> Undefined]
    /\ tActions = {}
    /\ task = [e \in Entries |-> parsed(config[e])]
    /\ cyc = [e \in Entries |-> EmptyBag]
    /\ startupRan = [e \in Entries |-> <<>>]
    /\ hist = [e \in Entries |->
                 IF on /\ config[e].listed THEN NewHist(dstDir[e]) ELSE NoHist]
    /\ TsIdle
    /\ cas = CasOff

\* the state at process start with the entries of `loaded` in the
\* configuration list, each with every field
InitWith(loaded, bad, stuck, on) ==
    InitOf({[e \in Entries |-> IF e \in loaded THEN FullEntry ELSE NoEntry]},
           bad, stuck, on)

Init == InitWith(Loaded, {{}}, {{}}, FALSE)

\* the history of entry e after a step of its cycle: the awaited operation
\* failed or not, the actions of its first trigger were executed or not, and
\* the invocation goes on as d
noted(e, opFailed, fired1, d) ==
    hist' = IF hist[e].on
            THEN [hist EXCEPT ![e] =
                    [@ EXCEPT !.upset = @ \/ opFailed,
                              !.fires = @ + (IF fired1 THEN 1 ELSE 0),
                              !.prevOk = IF d.pc = "done"
                                         THEN ~(hist[e].upset \/ opFailed) ELSE @]]
            ELSE hist

\* the invocations of entry e
cycles(e) == BagToSet(cyc[e])

\* the event loop of the process runs callbacks: no callback is inside an
\* execSync that has not returned
eventLoop ==
    \A e \in Entries :
        task[e] \notin {"execSync", "rejected"} /\ \A c \in cycles(e) : c.pc # "execSync"

\* invocation c of entry e goes on as d
step(e, c, d) ==
    cyc' = [cyc EXCEPT ![e] =
              IF dropped(d) THEN @ (-) SetToBag({c})
              ELSE (@ (-) SetToBag({c})) (+) SetToBag({d})]

\* parseConfig lines 79-88: the destination digest settles, its checksum is
\* cached when it resolved, and the first runCycle is called
DigestDst(e) ==
    /\ eventLoop
    /\ task[e] = "digestDst"
    /\ \E ok \in BOOLEAN :
         checksum' = [checksum EXCEPT ![e] = IF ok THEN digest(dstDir[e]) ELSE Undefined]
    /\ task' = [task EXCEPT ![e] = "firstRun"]
    /\ cyc' = [cyc EXCEPT ![e] = @ (+) SetToBag({NewCycle(TRUE)})]
    /\ hist' = IF hist[e].on THEN [hist EXCEPT ![e].cycles = 1] ELSE hist
    /\ UNCHANGED << envVars, tActions, startupRan, tsVars >>

\* runCycle lines 119-126 (and 139-192 without a backup): the source digest settles
DigestSrc(e) ==
    \E c \in cycles(e) :
    /\ eventLoop
    /\ c.pc = "digestSrc"
    /\ LET sc == digest(src[e])
           d  == IF backupIndex(e)
                 THEN [c EXCEPT !.sourceChecksum = sc, !.pc = "digestBackup"]
                 ELSE [c EXCEPT !.sourceChecksum = sc,
                                !.pc = afterDigests(e, sc, Undefined, checksum[e]),
                                !.seen = TRUE,
                                !.dstSeen = checksum[e]]
       IN step(e, c, d) /\ noted(e, FALSE, FALSE, d)
    /\ UNCHANGED << envVars, checksum, tActions, task, startupRan, tsVars >>

\* runCycle lines 128-137 and the decisions that follow: the backup digest settles
DigestBackup(e) ==
    \E c \in cycles(e) :
    /\ eventLoop
    /\ c.pc = "digestBackup"
    /\ LET bc == digest(backup[e])
           d  == [c EXCEPT !.backupChecksum = bc,
                           !.pc = afterDigests(e, c.sourceChecksum, bc, checksum[e]),
                           !.seen = TRUE,
                           !.dstSeen = checksum[e]]
       IN step(e, c, d) /\ noted(e, FALSE, FALSE, d)
    /\ UNCHANGED << envVars, checksum, tActions, task, startupRan, tsVars >>

\* runCycle lines 141-147: casync.diff settles (resolved or rejected)
Diff(e) ==
    \E c \in cycles(e) :
    /\ eventLoop
    /\ c.pc = "diff"
    /\ \E ok \in BOOLEAN :
         LET resolved == ok /\ src[e] # Undefined /\ dstDir[e] # NoDir
             d == past([c EXCEPT !.diff = IF resolved
                                          THEN casyncDiff(src[e], dstDir[e]) ELSE NoDiff,
                                 !.pc = "extract"])
         IN step(e, c, d) /\ noted(e, ~resolved, FALSE, d)
    /\ UNCHANGED << envVars, checksum, tActions, task, startupRan, tsVars >>

\* runCycle lines 149-164 with extract (233-251), then line 184: the
\* extraction settles, the cache is updated or deleted, the triggers run
Extract(e) ==
    \E c \in cycles(e) :
    /\ eventLoop
    /\ c.pc = "extract"
    /\ \E ok \in BOOLEAN :
         LET valid    == validDestination(dstDir[e])
             resolved == ok /\ valid /\ src[e] # Undefined
             cached   == IF resolved THEN digest(src[e]) ELSE Undefined
             due      == execTriggers(c.diff, triggers(e))
             ran      == SubSeq(due, 1, executed(commands(due), failing))
             fired    == SubSeq(ran, 1, started(commands(ran), hanging))
             d        == [c EXCEPT !.fired = fired,
                                   !.extracted = cached,
                                   !.did = @ \cup {"extract"} \cup called(valid, "casync.extract"),
                                   !.pc = IF stuckIn(commands(fired), hanging)
                                          THEN "execSync"
                                          ELSE afterExtract(e, c.backupChecksum, cached)]
         IN /\ dstDir' = [dstDir EXCEPT ![e] = IF resolved THEN src[e] ELSE @]
            /\ checksum' = [checksum EXCEPT ![e] = cached]
            /\ tActions' = tActions \cup marked(fired)
            /\ step(e, c, pastTriggers(d))
            /\ noted(e, ~resolved, \E j \in 1..Len(fired) : fired[j][1] = 1, d)
    /\ UNCHANGED << src, backup, srcChanges, failing, hanging, config, task, startupRan, tsVars >>

\* runCycle lines 169-180 with extractBackup (294-310), then line 184
ExtractBackup(e) ==
    \E c \in cycles(e) :
    /\ eventLoop
    /\ c.pc = "extractBackup"
    /\ \E ok \in BOOLEAN :
         LET valid == validDestination(dstDir[e]) /\ backup[e] # Undefined
             cached == IF valid THEN digest(backup[e]) ELSE Undefined
         IN IF valid /\ ~ok
            THEN \* casync.extract rejected: extractBackup's promise never settles
                 LET d == past([c EXCEPT !.pc = "hung", !.did = @ \cup {"extractBackup"}])
                 IN /\ step(e, c, d) /\ noted(e, TRUE, FALSE, d)
                    /\ UNCHANGED << dstDir, checksum >>
            ELSE LET d == past([c EXCEPT !.did = @ \cup {"extractBackup"},
                                         !.pc = afterExtract(e, c.backupChecksum, cached)])
                 IN /\ dstDir' = [dstDir EXCEPT ![e] = IF valid THEN backup[e] ELSE @]
                    /\ checksum' = [checksum EXCEPT ![e] = cached]
                    /\ step(e, c, d) /\ noted(e, ~valid, FALSE, d)
    /\ UNCHANGED << src, backup, srcChanges, failing, hanging, config, tActions, task, startupRan, tsVars >>

\* runCycle lines 186-190 with makeBackup (260-284): the save settles. The
\* directory of the backup index exists (dstExist) whenever the archive does.
Make(e) ==
    \E c \in cycles(e) :
    /\ eventLoop
    /\ c.pc = "make"
    /\ \E ok, dstExist \in BOOLEAN :
         LET valid == validBackup(dstDir[e], dstExist)
             d == past([c EXCEPT !.did = @ \cup {"make"} \cup called(valid, "casync.make"),
                                 !.pc = "done"])
         IN /\ backup[e] # Undefined => dstExist
            /\ backup' = [backup EXCEPT ![e] = IF valid /\ ok THEN dstDir[e] ELSE @]
            /\ step(e, c, d) /\ noted(e, ~(valid /\ ok), FALSE, d)
    /\ UNCHANGED << src, dstDir, srcChanges, failing, hanging, config, checksum, tActions, task,
                    startupRan, tsVars >>

\* a parseConfig that goes on as soon as runCycle was called
calledOnly(c) == TRUE

\* line 88, `await runCycle(...)`: the promise of the invocation is settled
returned(c) == c.pc = "done"

\* parseConfig lines 90-96: the first run has settled; the startup commands
\* are executed and the interval timer is started
Startup(e) ==
    /\ eventLoop
    /\ task[e] = "firstRun"
    /\ \E c \in cycles(e) :
         /\ c.first /\ returned(c)
         /\ cyc' = [cyc EXCEPT ![e] = @ (-) SetToBag({c})]
    /\ LET due == execStartup(startup(e), tActions)
           ran == SubSeq(due, 1, executed(due, failing))
           run == SubSeq(ran, 1, started(ran, hanging))
       IN /\ startupRan' = [startupRan EXCEPT ![e] = run]
          /\ task' = [task EXCEPT ![e] = IF stuckIn(run, hanging) THEN "execSync" ELSE "armed"]
    /\ UNCHANGED << envVars, checksum, tActions, hist, tsVars >>

\* parseConfig lines 94-96: an interval tick calls runCycle
Tick(e) ==
    /\ eventLoop
    /\ task[e] = "armed"
    /\ BagCardinality(cyc[e]) < MaxRunning
    /\ hist[e].on => cyc[e] = EmptyBag /\ hist[e].cycles < MaxCycles
    /\ cyc' = [cyc EXCEPT ![e] = @ (+) SetToBag({NewCycle(FALSE)})]
    /\ hist' = IF hist[e].on
               THEN [hist EXCEPT ![e].cycles = @ + 1, ![e].upset = FALSE]
               ELSE hist
    /\ UNCHANGED << envVars, checksum, tActions, task, startupRan, tsVars >>

\* the source index is replaced, or becomes (un)reachable
SrcChange(e) ==
    /\ task[e] # "off"
    /\ srcChanges < MaxSrcChanges
    /\ srcChanges' = srcChanges + 1
    /\ \E c \in {Undefined, "k1", "k2"} \ {src[e]} : src' = [src EXCEPT ![e] = c]
    /\ hist' = IF hist[e].on
               THEN [hist EXCEPT ![e].prevOk = FALSE, ![e].upset = TRUE]
               ELSE hist
    /\ UNCHANGED << dstDir, backup, failing, hanging, config, checksum, tActions, task, cyc,
                    startupRan, tsVars >>

Next ==
    \E e \in Entries :
        \/ DigestDst(e)
        \/ Startup(e)
        \/ Tick(e)
        \/ SrcChange(e)
        \/ DigestSrc(e)
        \/ DigestBackup(e)
        \/ Diff(e)
        \/ Extract(e)
        \/ ExtractBackup(e)
        \/ Make(e)

Spec == Init /\ [][Next]_vars

\* Spec with the event loop running every callback that is ready: a settled
\* promise resumes its awaiter, and a due interval tick is delivered
Fairness ==
    \A e \in Entries :
        /\ WF_vars(DigestDst(e)) /\ WF_vars(Startup(e)) /\ WF_vars(Tick(e))
        /\ WF_vars(DigestSrc(e)) /\ WF_vars(DigestBackup(e)) /\ WF_vars(Diff(e))
        /\ WF_vars(Extract(e)) /\ WF_vars(ExtractBackup(e)) /\ WF_vars(Make(e))

SpecLive == Spec /\ Fairness

\* commands that throw in SpecSeq
FailSets == {{}, {"c1"}, {"c2", "c4"}}

\* client.js with an interval longer than a cycle: a tick finds no cycle of
\* the entry in progress; the history of the entry is kept
InitSeq == InitWith({1}, FailSets, {{}}, TRUE)

SpecSeq == InitSeq /\ [][Next]_vars

\* client.js with two entries in the configuration: the first with its
\* source unreachable, a backup k2 and a destination holding k1, the second
\* with source k1 and an empty destination
PairEnv ==
    /\ src[1] = Undefined /\ backup[1] = "k2" /\ dstDir[1] = "k1"
    /\ src[2] = "k1" /\ dstDir[2] = Empty

InitPair == InitWith({1, 2}, {{}}, {{}}, TRUE) /\ PairEnv

SpecPair == InitPair /\ [][Next]_vars

\* commands that never return in SpecBlock
HangSets == {{}, {"c3"}}

\* SpecPair with a trigger action that may never return
InitBlock == InitWith({1, 2}, {{}}, HangSets, TRUE) /\ PairEnv

SpecBlock == InitBlock /\ [][Next]_vars

\* lines 98-100: the promise of a forEach callback that threw is rejected and
\* nothing handles it. Once parseConfig has returned, the runtime either
\* warns about it and goes on, or ends the process with the error: its
\* default depends on the version of nodejs the package manager installs
UnhandledRejection ==
    /\ \E e \in Entries : task[e] = "rejected"
    /\ \E exits \in BOOLEAN :
         IF exits
         THEN /\ task' = [e \in Entries |-> IF task[e] = "off" THEN "off" ELSE "exited"]
              /\ cyc' = [e \in Entries |-> EmptyBag]
         ELSE /\ task' = [e \in Entries |->
                            IF task[e] = "rejected" THEN "warned" ELSE task[e]]
              /\ UNCHANGED cyc
    /\ UNCHANGED << envVars, checksum, tActions, startupRan, hist, tsVars >>

NextCfg == Next \/ UnhandledRejection

\* client.js with two entries in the configuration list, each with any of
\* the four fields missing, in the environment of SpecPair
InitCfg == InitOf([Entries -> Listed], {{}}, {{}}, TRUE) /\ PairEnv

SpecCfg == InitCfg /\ [][NextCfg]_vars

----------------------------------------------------------------------------
(* SpecTs: runCycle of part_000, lines 185-258, on {checksum, timestamp}     *)
(* records                                                                 *)

\* a record without a timestamp: `!record.timestamp` is true
NoTs == 0

\* a digest that was rejected: the variable stays undefined
NoRecord == [checksum |-> Undefined, timestamp |-> NoTs]

\* the records a digest resolves with
Records == [checksum : {"k1", "k2"}, timestamp : NoTs..MaxTs]

defined(r) == r.checksum # Undefined

\* a.timestamp > b.timestamp (false when either is undefined)
newer(a, b) == a.timestamp # NoTs /\ b.timestamp # NoTs /\ a.timestamp > b.timestamp

\* `first || !r.timestamp`: reading .timestamp of undefined is a TypeError
orNoTimestamp(first, r) ==
    IF first THEN "true"
    ELSE IF ~defined(r) THEN "TypeError"
    ELSE IF r.timestamp = NoTs THEN "true"
    ELSE "false"

\* line 212 with >= for >
tsFromSourceTie(s, d) ==
    orNoTimestamp(defined(s) /\ defined(d) /\ s.checksum # d.checksum
                  /\ s.timestamp >= d.timestamp, d)

\* line 212: the source is extracted
tsFromSource(s, d) ==
    orNoTimestamp(defined(s) /\ defined(d) /\ s.checksum # d.checksum /\ newer(s, d), d)

\* an extraction of the backup whenever the source is unavailable
tsFromBackupAlways(s, b, bi) ==
    IF ~defined(s) /\ bi /\ defined(b) THEN "true" ELSE "false"

\* line 237: the backup is extracted
tsFromBackup(s, b, bi) ==
    orNoTimestamp(~defined(s) /\ bi /\ defined(s) /\ defined(b)
                  /\ b.checksum # s.checksum /\ newer(b, s), s)

\* line 251: the backup archive is saved
tsSaveBackup(bi, d, b) ==
    orNoTimestamp(bi /\ defined(d) /\ defined(b) /\ b.checksum # d.checksum /\ newer(d, b), b)

\* values the client.js variables keep under SpecTs
CliIdle ==
    /\ src = [e \in Entries |-> Undefined]
    /\ dstDir = [e \in Entries |-> NoDir]
    /\ backup = [e \in Entries |-> Undefined]
    /\ srcChanges = 0
    /\ checksum = [e \in Entries |-> Undefined]
    /\ tActions = {}
    /\ task = [e \in Entries |-> "off"]
    /\ cyc = [e \in Entries |-> EmptyBag]
    /\ startupRan = [e \in Entries |-> <<>>]
    /\ failing = {}
    /\ hanging = {}
    /\ config = [e \in Entries |-> NoEntry]
    /\ hist = [e \in Entries |-> NoHist]

InitTs ==
    /\ CliIdle
    /\ tsBackupIndex \in BOOLEAN
    /\ srcChecksum = NoRecord /\ dstChecksum = NoRecord /\ backupChecksum = NoRecord
    /\ tsPc = "digest"
    /\ tsDid = {}
    /\ cas = CasOff

\* lines 185-209: the three digests settle, each resolved or rejected; the
\* backup is digested only when it is configured
TsDigest ==
    /\ tsPc = "digest"
    /\ srcChecksum' \in Records \cup {NoRecord}
    /\ dstChecksum' \in Records \cup {NoRecord}
    /\ backupChecksum' \in IF tsBackupIndex THEN Records \cup {NoRecord} ELSE {NoRecord}
    /\ tsPc' = "source"
    /\ tsDid' = {}
    /\ UNCHANGED << tsBackupIndex, cliVars >>

\* lines 212 and 237: the extraction is chosen
TsChoose ==
    /\ tsPc = "source"
    /\ LET a == tsFromSource(srcChecksum, dstChecksum)
           b == tsFromBackup(srcChecksum, backupChecksum, tsBackupIndex)
       IN tsPc' = IF a = "true" THEN "extract"
                  ELSE IF a = "TypeError" THEN "threw"
                  ELSE IF b = "true" THEN "extractBackup"
                  ELSE IF b = "TypeError" THEN "threw"
                  ELSE "save"
    /\ UNCHANGED << srcChecksum, dstChecksum, backupChecksum, tsBackupIndex, tsDid, cliVars >>

\* lines 213-234: diff, extraction of the source, triggers
TsExtract ==
    /\ tsPc = "extract"
    /\ tsDid' = tsDid \cup {"extract"}
    /\ tsPc' = "save"
    /\ UNCHANGED << srcChecksum, dstChecksum, backupChecksum, tsBackupIndex, cliVars >>

\* lines 238-247: extraction of the backup
TsExtractBackup ==
    /\ tsPc = "extractBackup"
    /\ tsDid' = tsDid \cup {"extractBackup"}
    /\ tsPc' = "save"
    /\ UNCHANGED << srcChecksum, dstChecksum, backupChecksum, tsBackupIndex, cliVars >>

\* line 251: the save is chosen, on the records digested at lines 196 and 205
TsSave ==
    /\ tsPc = "save"
    /\ LET m == tsSaveBackup(tsBackupIndex, dstChecksum, backupChecksum)
       IN tsPc' = IF m = "true" THEN "make" ELSE IF m = "TypeError" THEN "threw" ELSE "done"
    /\ UNCHANGED << srcChecksum, dstChecksum, backupChecksum, tsBackupIndex, tsDid, cliVars >>

\* lines 253-257: casync.make settles
TsMake ==
    /\ tsPc = "make"
    /\ tsDid' = tsDid \cup {"make"}
    /\ tsPc' = "done"
    /\ UNCHANGED << srcChecksum, dstChecksum, backupChecksum, tsBackupIndex, cliVars >>

\* lines 156-158: the next tick calls runCycle again
TsTick ==
    /\ tsPc \in {"done", "threw"}
    /\ tsPc' = "digest"
    /\ UNCHANGED << srcChecksum, dstChecksum, backupChecksum, tsBackupIndex, tsDid, cliVars >>

NextTs ==
    \/ TsDigest
    \/ TsChoose
    \/ TsExtract
    \/ TsExtractBackup
    \/ TsSave
    \/ TsMake
    \/ TsTick

SpecTs == InitTs /\ [][NextTs]_vars

----------------------------------------------------------------------------
(* SpecCas: the methods of casync.js, called one at a time *)

InitCas ==
    /\ CliIdle
    /\ TsIdle
    /\ cas = CasReady

\* digest is called and settles: for a remote index, whose sidecar and
\* content are the server's, or for a local file; only an index has a
\* sidecar, the one make wrote (no method writes <directory>.cks)
CasDigest ==
    /\ cas.pc = "ready"
    /\ \E target \in Targets :
         \E sidecar \in IF target = "remote" THEN Sidecars
                         ELSE IF target = "index" THEN {cas.fs.cks} ELSE {Absent},
            out \in IF target = "remote" THEN Outcomes ELSE Ran(holds(cas.fs, target)) :
            cas' = settled([cas EXCEPT !.op = "digest", !.target = target,
                                       !.remote = (target = "remote"),
                                       !.sidecar = sidecar, !.out = out],
                           digestCks(target = "remote", sidecar, out))
    /\ UNCHANGED << tsOnly, cliOnly >>

\* make is called on the directory, which holds source by now, and settles
CasMake ==
    /\ cas.pc = "ready"
    /\ \E source \in {"k1", "k2"} :
         \E out \in Ran(source) :
            \E out2 \in IF out.error \/ out.stderr THEN {NoOutcome} ELSE Ran(source) :
               LET r == make(out, out2)
               IN cas' = settled([cas EXCEPT !.op = "make", !.out = out, !.out2 = out2,
                                             !.fs = made(cas.fs, source, out, out2, r)], r)
    /\ UNCHANGED << tsOnly, cliOnly >>

\* extract is called on the archive and the directory tmp, and settles
CasExtract ==
    /\ cas.pc = "ready"
    /\ \E out \in Outcomes :
         /\ cas.fs.index \notin Cks => out.error
         /\ LET r == extract(out)
            IN cas' = settled([cas EXCEPT !.op = "extract", !.out = out,
                                          !.fs = extracted(cas.fs, out, r)], r)
    /\ UNCHANGED << tsOnly, cliOnly >>

\* mtree is called and settles
CasMtree ==
    /\ cas.pc = "ready"
    /\ \E out \in Outcomes :
         cas' = settled([cas EXCEPT !.op = "mtree", !.out = out], mtree(out))
    /\ UNCHANGED << tsOnly, cliOnly >>

\* diff is called and settles
CasDiff ==
    /\ cas.pc = "ready"
    /\ \E s1, s2 \in Cks \cup {Undefined}, failAt \in FailAts :
         LET r == casDiff(s1, s2, failAt)
         IN cas' = [cas EXCEPT !.pc = "returned", !.op = "diff", !.s1 = s1, !.s2 = s2,
                               !.failAt = failAt, !.state = r.state, !.list = r.list,
                               !.mounted = r.mounted, !.exists = r.exists]
    /\ UNCHANGED << tsOnly, cliOnly >>

\* the caller has taken the outcome
CasReturn ==
    /\ cas.pc = "returned"
    /\ cas' = [CasReady EXCEPT !.fs = cas.fs]
    /\ UNCHANGED << tsOnly, cliOnly >>

NextCas ==
    \/ CasDigest
    \/ CasMake
    \/ CasExtract
    \/ CasMtree
    \/ CasDiff
    \/ CasReturn

SpecCas == InitCas /\ [][NextCas]_vars

----------------------------------------------------------------------------
(* Properties *)

\* the cycle has chosen, or gone through, the extraction of the source
selectsSource(c) == c.pc \in {"diff", "extract"} \/ "extract" \in c.did

\* the cycle has chosen, or gone through, the extraction of the backup
selectsBackup(c) == c.pc = "extractBackup" \/ "extractBackup" \in c.did

\* the cycle has chosen, or gone through, the save of the backup
selectsMake(c) == c.pc = "make" \/ "make" \in c.did

\* trigger i of the cycle's entry had an action executed
firedTrigger(c, i) == \E j \in 1..Len(c.fired) : c.fired[j][1] = i

\* number of executions of command a in a list of commands
RECURSIVE count(_, _)
count(a, list) ==
    IF list = <<>> THEN 0
    ELSE (IF Head(list) = a THEN 1 ELSE 0) + count(a, Tail(list))

\* C1 (as claimed): once execTriggers has run on a computed changed-path list
\* D, the actions of a trigger were executed iff one of its paths is in D.
C1_TriggersIffChanged ==
    \A e \in Entries : \A c \in cycles(e) :
        ("extract" \in c.did /\ c.diff.defined) =>
            \A i \in 1..Len(triggers(e)) :
                firedTrigger(c, i) <=>
                    \E n \in 1..Len(triggers(e)[i].paths) :
                        includes(c.diff.list, triggers(e)[i].paths[n])

\* C2: when the interval timer of an entry is started, every command of its
\* startup list that a trigger of the first cycle executed has been executed
\* exactly once since the process started: by the trigger, not by the
\* startup run.
C2_StartupSkipsTriggered ==
    [][\A e \in Entries : \A c \in cycles(e) :
          (task[e] = "firstRun" /\ task'[e] = "armed" /\ c.first) =>
              \A a \in marked(c.fired) :
                  includes(startup(e), a) =>
                      /\ count(a, startupRan'[e]) = 0
                      /\ count(a, commands(c.fired)) + count(a, startupRan'[e]) = 1]_vars

\* C2 witness: the timer is started, c1 (a startup command and a trigger
\* action) is in the trigger actions cache and the startup run skipped it
C2_Witness ==
    /\ task[1] = "armed"
    /\ "c1" \in tActions
    /\ startupRan[1] = <<"c4">>

\* C3 (as claimed): at no time are two cycles of one entry in progress.
C3_NoOverlap ==
    \A e \in Entries : BagCardinality(cyc[e]) <= 1

\* the cycle has taken its decisions on an available source and destination
\* with equal checksums
equalSourceDst(c) ==
    c.seen /\ c.sourceChecksum # Undefined /\ c.sourceChecksum = c.dstSeen

C5_BackupEqualIsNoOp ==
    \A e \in Entries : \A c \in cycles(e) :
        (c.seen /\ c.sourceChecksum = Undefined /\ c.backupChecksum # Undefined
         /\ c.dstSeen # Undefined /\ c.backupChecksum = c.dstSeen) =>
            ~selectsSource(c) /\ ~selectsBackup(c) /\ ~selectsMake(c)

\* C5 witness: a first cycle ended with the source unavailable and equal
\* backup and destination checksums
C5_Witness ==
    \E c \in cycles(1) :
        /\ c.seen /\ c.sourceChecksum = Undefined /\ c.backupChecksum = "k1"
        /\ c.dstSeen = "k1" /\ c.pc = "done" /\ c.did = {}

\* the records of the cycle are those its decisions are taken on
tsDecided == tsPc \in {"extract", "extractBackup", "save", "make", "done", "threw"}

\* a.timestamp <= b.timestamp, both present
notNewer(a, b) == a.timestamp # NoTs /\ b.timestamp # NoTs /\ a.timestamp <= b.timestamp

C9_BackupExtracted ==
    /\ (tsPc \in {"save", "make", "done", "threw"}
        /\ ~defined(srcChecksum) /\ defined(backupChecksum) /\ defined(dstChecksum)
        /\ backupChecksum.checksum # dstChecksum.checksum
        /\ newer(backupChecksum, dstChecksum)) =>
           "extractBackup" \in tsDid
    /\ (tsDecided /\ defined(srcChecksum)) =>
           tsPc # "extractBackup" /\ "extractBackup" \notin tsDid

\* C10 (as claimed): a cycle saves the backup iff a backup is configured, the
\* destination is available, and the backup is unavailable or differs from
\* and is older than the destination.
C10_SaveIff ==
    tsPc \in {"done", "threw"} =>
        ("make" \in tsDid <=>
            /\ tsBackupIndex
            /\ defined(dstChecksum)
            /\ ~defined(backupChecksum) \/ dstChecksum.checksum # backupChecksum.checksum
            /\ ~defined(backupChecksum) \/ newer(dstChecksum, backupChecksum))

C15_StartupAfterFirstCycle ==
    [][\A e \in Entries :
          /\ task[e] # "armed" =>
                startupRan[e] = <<>> /\ \A c \in cycles(e) : c.first
          /\ (startupRan'[e] # startupRan[e] \/ (task[e] # "armed" /\ task'[e] = "armed")) =>
                /\ task[e] = "firstRun" /\ task'[e] = "armed"
                /\ \A c \in cycles(e) : c.first /\ c.pc = "done"
                /\ cyc'[e] = EmptyBag]_vars

\* C15 witness: the startup commands have run and an interval cycle is in
\* progress
C15_Witness ==
    /\ task[1] = "armed"
    /\ startupRan[1] # <<>>
    /\ \E c \in cycles(1) : ~c.first /\ c.pc = "digestSrc"

\* C16 (as claimed): a first cycle whose extraction of the source failed
\* leaves the cached destination checksum it decided on, and a cached
\* destination checksum that a cycle decided on is not removed.
C16_FailedExtractKeepsCache ==
    \A e \in Entries : \A c \in cycles(e) :
        (c.first /\ c.seen) =>
            /\ ("extract" \in c.did /\ c.extracted = Undefined) => checksum[e] = c.dstSeen
            /\ c.dstSeen # Undefined => checksum[e] # Undefined

\* C17 (as claimed): a cycle whose source digest was rejected does not end by
\* raising an error.
C17_NoAbortWithoutSource ==
    tsPc = "threw" => defined(srcChecksum)

\* C19 (as claimed): no cycle is left waiting on a result that is never
\* delivered.
C19_NoHungCycle ==
    \A e \in Entries : \A c \in cycles(e) : c.pc # "hung"

\* C18 (as claimed): the interval timer of a loaded entry is eventually
\* started, whatever fails in its first cycle.
C18_TimerArmed ==
    \A e \in Loaded : <>(task[e] = "armed")

\* C12: a cycle that follows a cycle in which every operation succeeded, with
\* no change of the source since, goes no further than its digests: it
\* computes no diff, extracts nothing, saves no backup and runs no trigger.
C12_SecondCycleIdle ==
    \A e \in Entries : \A c \in cycles(e) :
        (hist[e].on /\ hist[e].prevOk /\ ~c.first) =>
            c.pc \in {"digestSrc", "digestBackup"}

\* C12 witness: the second cycle is at its backup digest, after a first cycle
\* that extracted k2 and saved it
C12_Witness ==
    /\ hist[1].prevOk /\ hist[1].cycles = 2 /\ hist[1].base # "k2"
    /\ dstDir[1] = "k2" /\ backup[1] = "k2" /\ checksum[1] = "k2"
    /\ \E c \in cycles(1) : ~c.first /\ c.pc = "digestBackup"

\* the commands in the actions of the triggers of an entry
triggerCommands(e) ==
    UNION {{triggers(e)[i].actions[j] : j \in 1..Len(triggers(e)[i].actions)} :
             i \in 1..Len(triggers(e))}

\* C13 (as claimed): once the timer of an entry is started, every command of
\* its startup list that is no action of its own triggers has been executed
\* by its startup run.
C13_LedgerPerEntry ==
    \A e \in Entries :
        task[e] = "armed" =>
            \A n \in 1..Len(startup(e)) :
                startup(e)[n] \notin triggerCommands(e) =>
                    includes(startupRan[e], startup(e)[n])

\* C14: whatever commands throw, a first cycle that ran execTriggers executed
\* every action of every trigger execTriggers runs and went on to the backup
\* save decision; and once the timer is started every startup command was
\* executed by the startup run unless it was marked as run by a trigger.
C14_FailuresContained ==
    \A e \in Entries :
        /\ \A c \in cycles(e) :
              (c.first /\ "extract" \in c.did) =>
                  /\ commands(c.fired) = commands(execTriggers(c.diff, triggers(e)))
                  /\ selectsMake(c) <=> saveBackup(e, c.backupChecksum, c.extracted)
        /\ task[e] = "armed" =>
              \A n \in 1..Len(startup(e)) :
                  startup(e)[n] \in tActions \/ includes(startupRan[e], startup(e)[n])

\* C14 witness: c1 throws; the first cycle executed c1, c2 and c3 and saved
\* the backup
C14_Witness ==
    /\ failing = {"c1"}
    /\ \E c \in cycles(1) :
          /\ c.first /\ c.pc = "done" /\ "make" \in c.did
          /\ commands(c.fired) = <<"c1", "c2", "c3">>

\* C20 (as claimed): when the source differs from the initial destination
\* content in a path of the first trigger and never changes, then once the
\* destination holds the source's content the actions of that trigger have
\* been executed by exactly one cycle.
C20_TriggerOncePerChange ==
    \A e \in Entries :
        (/\ hist[e].on /\ srcChanges = 0 /\ src[e] # Undefined
         /\ hist[e].base \in Cks
         /\ Tree(src[e])["p1"] # Tree(hist[e].base)["p1"]
         /\ dstDir[e] = src[e]) =>
            hist[e].fires = 1

\* the place of action a in the declared list of actions
position(a, list) == CHOOSE n \in 1..Len(list) : list[n] = a

\* C21: within one cycle the trigger actions are executed in the order the
\* triggers are declared and, within a trigger, in the order its actions are
\* declared: no action of a later trigger precedes one of an earlier trigger
C21_TriggerOrder ==
    \A e \in Entries : \A c \in cycles(e) :
        \A j, k \in 1..Len(c.fired) :
            j < k =>
                \/ c.fired[j][1] < c.fired[k][1]
                \/ /\ c.fired[j][1] = c.fired[k][1]
                   /\ position(c.fired[j][2], triggers(e)[c.fired[j][1]].actions)
                        < position(c.fired[k][2], triggers(e)[c.fired[k][1]].actions)

\* a cycle executed the action of the first trigger and then both actions of
\* the second
C21_Witness ==
    \E e \in Entries : \E c \in cycles(e) :
        c.fired = << <<1, "c1">>, <<2, "c2">>, <<2, "c3">> >>

\* C22: an extraction whose destination path is not a directory fails
\* without calling casync.extract and without touching the destination; the
\* cycle extracts nothing
C22_NoDestinationNoExtract ==
    \A e \in Entries : \A c \in cycles(e) :
        (hist[e].on /\ hist[e].base = NoDir /\ "extract" \in c.did) =>
            /\ "casync.extract" \notin c.did
            /\ dstDir[e] = NoDir
            /\ c.extracted = Undefined
            /\ checksum[e] = Undefined

\* the first cycle of an entry without a destination directory selected the
\* source and its extraction has settled
C22_Witness ==
    \E e \in Entries : \E c \in cycles(e) :
        /\ hist[e].on /\ hist[e].base = NoDir /\ c.first
        /\ c.sourceChecksum # Undefined /\ "extract" \in c.did

\* C23: a save whose directory is missing or empty, or whose index has no
\* parent directory, fails without calling casync.make and leaves the backup
\* archive as the cycle found it
C23_InvalidMakeNoOp ==
    \A e \in Entries : \A c \in cycles(e) :
        (hist[e].on /\ c.first /\ "make" \in c.did) =>
            /\ dstDir[e] \in {NoDir, Empty} => "casync.make" \notin c.did
            /\ "casync.make" \notin c.did => digest(backup[e]) = c.backupChecksum

\* a save of an empty directory has settled, and so has a save of a
\* directory with content whose index has no parent directory
C23_Witness ==
    \E e \in Entries : \E c \in cycles(e) :
        /\ hist[e].on /\ c.first /\ "make" \in c.did /\ "casync.make" \notin c.did
        /\ dstDir[e] = Empty

\* a save of a directory with content has settled without a call of
\* casync.make: the index has no parent directory
C23_WitnessNoParent ==
    \E e \in Entries : \E c \in cycles(e) :
        /\ hist[e].on /\ c.first /\ "make" \in c.did /\ "casync.make" \notin c.did
        /\ dstDir[e] \in {"k1", "k2"}

\* C24: digest returns the content of a readable sidecar without running
\* casync digest; with the sidecar absent or unreadable, of a local or of a
\* remote target, it runs casync digest; it never writes the sidecar
C24_DigestSidecar ==
    (cas.pc = "returned" /\ cas.op = "digest") =>
        /\ truthy(cas.sidecar) /\ cas.sidecar # Absent =>
                cas.state = "resolved" /\ cas.value = cas.sidecar /\ cas.ran = {}
        /\ cas.sidecar = Absent => "digest" \in cas.ran
        /\ cas.wrote = {}

\* C25: once diff has returned, resolved or rejected, a scratch directory it
\* mounted is unmounted and removed
C25_ScratchRemoved ==
    (cas.pc = "returned" /\ cas.op = "diff"
        /\ (cas.state = "resolved" \/ cas.failAt \in {"write", "read"})) =>
        ~cas.mounted /\ ~cas.exists

\* C26: make, extract, digest and mtree are rejected whenever the casync
\* command they ran wrote to stderr, even with exit code 0
C26_StderrFails ==
    (cas.pc = "returned" /\ cas.op \in {"make", "extract", "digest", "mtree"}
        /\ cas.op \in cas.ran /\ cas.out.stderr) =>
        cas.state = "rejected"

\* the entries of the second content that do not match the first, in order
secondOnly(s1, s2) ==
    SelectSeq(Paths, LAMBDA p : Tree(s2)[p] # 0 /\ Tree(s2)[p] # Tree(s1)[p])

\* C27: diff resolves the paths of the '>' lines of the text diff, in output
\* order, that is the entries of the second listing that do not match the
\* first; entries of the first listing alone add nothing, and equal
\* listings give the empty list
C27_DiffSecondOnly ==
    (cas.pc = "returned" /\ cas.op = "diff" /\ cas.state = "resolved") =>
        /\ cas.list = secondOnly(cas.s1, cas.s2)
        /\ cas.list = casyncDiff(cas.s1, cas.s2).list
        /\ cas.s1 = cas.s2 => cas.list = <<>>

\* diff has resolved for a first listing with two entries and a second that
\* holds one of them, changed
C27_Witness ==
    /\ cas.pc = "returned" /\ cas.op = "diff" /\ cas.state = "resolved"
    /\ cas.s1 = "k2" /\ cas.s2 = "k1" /\ cas.list = <<"p1">>

\* every callback of entry e that is ready can run: the continuation of
\* each of its cycles, its startup commands once the first cycle returned,
\* and a tick of its timer
canProceed(e) ==
    /\ task[e] = "digestDst" => ENABLED DigestDst(e)
    /\ (\E c \in cycles(e) : c.pc = "digestSrc") => ENABLED DigestSrc(e)
    /\ (\E c \in cycles(e) : c.pc = "digestBackup") => ENABLED DigestBackup(e)
    /\ (\E c \in cycles(e) : c.pc = "diff") => ENABLED Diff(e)
    /\ (\E c \in cycles(e) : c.pc = "extract") => ENABLED Extract(e)
    /\ (\E c \in cycles(e) : c.pc = "extractBackup") => ENABLED ExtractBackup(e)
    /\ (\E c \in cycles(e) : c.pc = "make") => ENABLED Make(e)
    /\ (task[e] = "firstRun" /\ \E c \in cycles(e) : c.first /\ c.pc = "done")
            => ENABLED Startup(e)
    /\ (task[e] = "armed" /\ cyc[e] = EmptyBag /\ hist[e].cycles < MaxCycles)
            => ENABLED Tick(e)

\* C28: a cycle of one entry that is suspended on a subprocess, or that never
\* completes, does not keep the cycles, the startup commands or the timer
\* ticks of any other entry from proceeding
C28_EntriesIndependent ==
    \A e, f \in Entries :
        (e # f /\ \E c \in cycles(f) : c.pc # "done") => canProceed(e)

C30_NoBackupNoError ==
    ~tsBackupIndex =>
        /\ tsPc \notin {"threw", "extractBackup", "make"}
        /\ tsDid \cap {"extractBackup", "make"} = {}

\* what digest resolves for the directory when casync digest succeeds
digestOfDir == digestCks(FALSE, Absent, [error |-> FALSE, stderr |-> FALSE,
                                         stdout |-> line(cas.fs.dir)]).value

C32_LedgerBeforeExecution ==
    /\ [](\A e \in Entries : \A c \in cycles(e) :
            \A j \in 1..Len(c.fired) : c.fired[j][2] \in tActions)
    /\ [][/\ tActions \subseteq tActions'
          /\ \A e \in Entries : \A c \in cycles(e) :
                (task[e] = "firstRun" /\ task'[e] = "armed" /\ c.first) =>
                    \A j \in 1..Len(c.fired) :
                        c.fired[j][2] \in failing =>
                            ~includes(startupRan'[e], c.fired[j][2])]_vars

\* c1, a startup command, threw as a trigger action of the first cycle; the
\* timer is started and the startup run executed c4 only
C32_Witness ==
    /\ failing = {"c1"} /\ hist[1].fires = 1
    /\ task[1] = "armed" /\ "c1" \in tActions
    /\ startupRan[1] = <<"c4">>

\* C33: a cycle performs at most one extraction into the destination, from
\* the source or from the backup, never both
C33_OneExtraction ==
    \A e \in Entries : \A c \in cycles(e) :
        /\ ~({"extract", "extractBackup"} \subseteq c.did)
        /\ c.pc \in {"diff", "extract"} => "extractBackup" \notin c.did
        /\ c.pc = "extractBackup" => "extract" \notin c.did

\* two cycles are past their extraction, one from the source and one from
\* the backup
C33_Witness ==
    \E e \in Entries : \E c, d \in cycles(e) :
        /\ "extract" \in c.did
        /\ "extractBackup" \in d.did

\* C34: trigger actions are executed only by a cycle that took the
\* extract-from-source branch; a cycle that restores from the backup, only
\* saves the backup, or does nothing executes none
C34_TriggersOnlyFromSource ==
    /\ [](\A e \in Entries : \A c \in cycles(e) :
            /\ c.fired # <<>> => "extract" \in c.did /\ "extractBackup" \notin c.did
            /\ (c.first /\ c.seen /\ ~fromSource(c.sourceChecksum, c.dstSeen)) =>
                    c.fired = <<>> /\ "extract" \notin c.did)
    /\ [][tActions' # tActions =>
            \E e \in Entries : \E c \in cycles(e) : c.pc = "extract"]_vars

\* a first cycle restored the destination from the backup and saved nothing,
\* and executed no trigger action
C34_Witness ==
    \E e \in Entries : \E c \in cycles(e) :
        /\ c.first /\ c.pc = "done" /\ "extractBackup" \in c.did
        /\ c.fired = <<>> /\ tActions = {}

\* C35: when casync.diff rejects in a cycle of the extract-from-source branch,
\* the cycle goes on to the extraction and executes no trigger action
C35_DiffFailureNoTriggers ==
    /\ [](\A e \in Entries : \A c \in cycles(e) :
            (c.first /\ "extract" \in c.did /\ ~c.diff.defined) => c.fired = <<>>)
    /\ [][\A e \in Entries : \A c \in cycles(e) :
            /\ (c.pc = "diff" /\ cyc'[e] # cyc[e]) =>
                   \E d \in BagToSet(cyc'[e]) : d.pc = "extract"
            /\ (c.pc = "extract" /\ ~c.diff.defined) =>
                   /\ tActions' = tActions
                   /\ hist'[e].fires = hist[e].fires
                   /\ cyc'[e] # cyc[e] =>
                         \A d \in BagToSet(cyc'[e]) : "extract" \in d.did \/ ~d.first]_vars

\* a first cycle whose diff was rejected has extracted the source into the
\* destination and returned, and no trigger action was executed
C35_Witness ==
    \E e \in Entries : \E c \in cycles(e) :
        /\ c.first /\ c.pc = "done" /\ "extract" \in c.did /\ ~c.diff.defined
        /\ c.extracted # Undefined /\ dstDir[e] = src[e]
        /\ c.fired = <<>> /\ tActions = {}

\* C36 (as claimed): every startup command of a loaded entry that is not in
\* the ledger is eventually executed by the startup run, whatever the first
\* cycle did
C36_StartupRuns ==
    \A e \in Loaded :
        <>(/\ task[e] \notin {"digestDst", "firstRun"}
           /\ \A i \in 1..Len(startup(e)) :
                 startup(e)[i] \in tActions \/ includes(startupRan[e], startup(e)[i]))

\* C37 (as claimed): once make has settled, resolved or rejected, the checksum
\* sidecar and the tree-listing sidecar of the index describe the same archive
\* content, and a rejected make has left both sidecars as they were
C37_SidecarsAgree ==
    (cas.pc = "returned" /\ cas.op = "make") =>
        /\ cas.fs.cks = cas.fs.mt
        /\ cas.state = "rejected" =>
              cas.fs.cks = cas.fs.prevCks /\ cas.fs.mt = cas.fs.prevMt

\* the digest that invocation c of entry e awaits is its last one, and with
\* its result none of the conditions of lines 140, 167-168 and 184 holds
noOpAt(e, c) ==
    LET sc == IF c.pc = "digestSrc" THEN digest(src[e]) ELSE c.sourceChecksum
        bc == IF c.pc = "digestBackup" THEN digest(backup[e]) ELSE Undefined
        cached == checksum[e]
    IN /\ c.pc = "digestBackup" \/ (c.pc = "digestSrc" /\ ~backupIndex(e))
       /\ sc = Undefined \/ sc = cached
       /\ ~(sc = Undefined /\ bc # Undefined /\ cached # Undefined /\ cached # bc)
       /\ ~(backupIndex(e) /\ cached # Undefined /\ bc # cached)

\* C38: a cycle whose digests select no extraction and no save returns with
\* the destination, the backup archive, the cached checksum and the ledger as
\* they were, having called nothing but its digests
C38_NoOpFrame ==
    [][\A e \in Entries : \A c \in cycles(e) :
         (c.pc \in {"digestSrc", "digestBackup"} /\ cyc'[e] # cyc[e]) =>
            /\ dstDir' = dstDir /\ backup' = backup /\ checksum' = checksum
            /\ tActions' = tActions /\ startupRan' = startupRan
            /\ hist'[e].fires = hist[e].fires
            /\ noOpAt(e, c) =>
                  \A d \in BagToSet(cyc'[e]) :
                      d.pc = "done" /\ d.did = {} /\ d.fired = <<>>]_vars

\* a first cycle found source, backup and cache equal and returned having
\* done nothing: the destination is as it was at process start
C38_Witness ==
    \E e \in Entries : \E c \in cycles(e) :
        /\ c.first /\ c.pc = "done" /\ c.did = {} /\ c.seen
        /\ c.sourceChecksum # Undefined /\ c.sourceChecksum = checksum[e]
        /\ backup[e] = dstDir[e] /\ dstDir[e] = hist[e].base /\ tActions = {}

\* C39 (as claimed): an entry that lacks one of interval, srcIndex, srcStore and
\* dstPath never runs a cycle, a startup command or a timer, and the valid
\* entries of the list are not kept from their first cycle and their timer by
\* its rejection
C39_InvalidEntryAlone ==
    \A e \in Entries :
        /\ ~validEntry(config[e]) =>
              /\ cyc[e] = EmptyBag /\ startupRan[e] = <<>>
              /\ task[e] \notin {"digestDst", "firstRun", "armed", "execSync"}
        /\ (config[e].listed /\ validEntry(config[e])) => task[e] # "exited"

====
